---- MODULE Spec2Model ----
(***************************************************************************)
(* Model of the eCourts High Court case-status scraper.                    *)
(*                                                                         *)
(*   captcha_solver.py  OCRCaptchaSolver, SimpleCaptchaSolver,             *)
(*                      HybridCaptchaSolver                                *)
(*   scapper.py         open_case_status_page, handle_popup_if_present,    *)
(*                      enumerate_high_courts, enumerate_benches,          *)
(*                      perform_search_and_extract                         *)
(*   main.py            ECourtsScraper.initialize, search_by_party_name,   *)
(*                      run_comprehensive_search, main                     *)
(*   database.py        init_database, close_database,                     *)
(*                      insert_case_record, log_search                     *)
(*                                                                         *)
(* Python strings are modelled as sequences of one-character strings, so   *)
(* that strip(), replace(), len() and the substring test are computed the  *)
(* way the interpreter computes them.  Optional[str] is a string or None.  *)
(***************************************************************************)
EXTENDS Integers, Sequences, FiniteSets, TLC

VARIABLES
    \* ---- captcha_solver.py: one call of HybridCaptchaSolver.solve_captcha
    cpc,            \* position in solve_captcha: "off", "ocr", "manual", "ret",
                    \* "raised" (an exception left solve_captcha)
    image,          \* what the OCR engine does with the image bytes
    ocr_result,     \* result of OCRCaptchaSolver.solve_captcha_from_bytes
    manual_calls,   \* number of calls of solve_manual_captcha
    solution,       \* value returned by solve_captcha
    \* ---- scapper.py: enumerate_high_courts / enumerate_benches
    tpc,            \* "off", "courts", "benches", "courts_done", "benches_done";
                    \* "select", "poll", "wait" inside enumerate_benches
    select_visible, \* is_visible() of #sess_state_code
    bench_present,  \* some document holds #court_complex_code
    dom_options,    \* the <option> elements of the selector, document order
    courts,         \* list returned by enumerate_high_courts
    benches,        \* list returned by enumerate_benches
    topo_error,     \* "none", "caught" (inside the try) or "raised" (to the caller)
    bench_frame,    \* enumerate_benches: the frame the poll found, or "none"
    poll_log,       \* one entry per poll of the frames: did it find the selector
    \* ---- scapper.py: one call of perform_search_and_extract
    pc,             \* "off", "fetch", "resolve", "solving", "post", "done"
    search_args,    \* the arguments of ECourtsScraper.search_by_party_name
    call,           \* the arguments of the call
    fetches,        \* number of GETs of the challenge image
    resolves,       \* number of calls of solve_captcha
    captcha_image,  \* the challenge fetched last
    captcha_solution,
    payload,        \* the POST payload (built once, line 206)
    attempt,        \* loop variable of "for attempt in range(max_retries)"
    posts,          \* log of the POST submissions made
    hist,           \* summary of the response of each attempt
    lastResp,       \* the response of the last POST
    returned,       \* value returned to the caller
    exit,           \* which return statement was taken
    raised,         \* an exception left perform_search_and_extract
    search_logs,    \* search-outcome events delivered to the sink (log_search)
    page,           \* the interactive surface: selected court, loaded document
    cookie_reads,   \* reads of the cookie jar (page.context.cookies())
    \* ---- scapper.py: open_case_status_page / handle_popup_if_present,
    \*      called by ECourtsScraper.initialize
    gpc,            \* "off", "goto", "open", "popup", "probe", "opened", "done"
    cand,           \* index of the candidate locator tried next
    gate_log,       \* what open_case_status_page did, in order
    pk,             \* index of the dismissal target probed next
    popup_clicks,   \* clicks on dismissal targets that returned
    visible_seen,   \* some dismissal target answered is_visible() with True
    escape_sent,    \* keyboard.press("Escape") was called and returned
    popup_ret,      \* "none", "True", "None" or "raised"
    open_result,    \* "none", "True", "False" or "raised"
    init_result,    \* "none", "True" or "False"
    \* ---- main.py: ECourtsScraper.run_comprehensive_search
    rpc,            \* "off", "start", "court", "bench", "done" (the run has
                    \* ended), "main_done"
    db,             \* the global database manager: "unset", "broken" (no
                    \* connection), "no_tables" (connected, tables not
                    \* initialised), "ready"
    all_courts,     \* values of the courts get_all_high_courts returned
    filtered_courts,
    ci,             \* index of the court being processed
    cur_benches,    \* values of the benches of that court
    bi,             \* index of the bench being searched
    to_search,      \* every <<court, bench>> pair enumerated so far
    searched,       \* every <<court, bench>> pair perform_search was called for
    first_failure,  \* Len(searched) when the first local failure happened, or -1
    saved_batches,  \* calls of save_to_database that returned True
    stored,         \* records the sink accepted
    run_raised,     \* an exception left run_comprehensive_search
    main_exit,      \* how main() ended: "none", "returned", "raised"
    db_log          \* the calls of init_database and close_database made

captchaVars == <<cpc, image, ocr_result, manual_calls, solution>>
topoVars    == <<tpc, select_visible, bench_present, dom_options, courts, benches, topo_error,
                 bench_frame, poll_log>>
searchVars  == <<pc, search_args, call, fetches, resolves, captcha_image, captcha_solution,
                 payload, attempt, posts, hist, lastResp, returned, exit,
                 raised, search_logs, page, cookie_reads>>
gateVars    == <<gpc, cand, gate_log, pk, popup_clicks, visible_seen, escape_sent,
                 popup_ret, open_result, init_result>>
runVars     == <<rpc, db, all_courts, filtered_courts, ci, cur_benches, bi, to_search,
                 searched, first_failure, saved_batches, stored, run_raised, main_exit,
                 db_log>>
vars == <<captchaVars, topoVars, searchVars, gateVars, runVars>>

-----------------------------------------------------------------------------
(* Bounds of the model *)

MaxOcrLen  == 5     \* longest raw OCR output
MaxOpts    == 2     \* most <option> elements in a selector
MaxRows    == 2     \* most data rows in a results table
MaxRetries == 3     \* largest max_retries argument
MaxCourts  == 2     \* most courts in the list of enumerate_high_courts
MaxDbCalls == 5     \* most calls of init_database and close_database

-----------------------------------------------------------------------------
(* Python values *)

\* None: a one-element sequence whose element is no character
NoneVal == << "<None>" >>

\* an exception in place of a value: a call that raised
RaisedVal == << "<raised>" >>

\* bool(x) of an Optional[str]
Truthy(s) == s # NoneVal /\ s # << >>

\* str.isspace() of one character
IsSpace(c) == c \in {" ", "\n", "\t", "\r", "\f"}

RECURSIVE LStrip(_)
LStrip(s) == IF s = << >> THEN s
             ELSE IF IsSpace(Head(s)) THEN LStrip(Tail(s)) ELSE s

RECURSIVE RStrip(_)
RStrip(s) == IF s = << >> THEN s
             ELSE IF IsSpace(s[Len(s)]) THEN RStrip(SubSeq(s, 1, Len(s) - 1)) ELSE s

\* str.strip()
Strip(s) == RStrip(LStrip(s))

\* str.replace(c, '') for a one-character c
Remove(s, c) == SelectSeq(s, LAMBDA x : x # c)

\* sub in s
Contains(s, sub) ==
    \E i \in 1..(Len(s) - Len(sub) + 1) : SubSeq(s, i, i + Len(sub) - 1) = sub

\* all sequences over S of length at most n
SeqsUpTo(S, n) == UNION { [1..k -> S] : k \in 0..n }

-----------------------------------------------------------------------------
(* captcha_solver.py *)

\* characters the OCR engine can put in its raw output: the whitelist
\* (a letter, a digit) and the blanks and line ends it emits around them
OcrAlphabet == {"A", "7", " ", "\n"}

\* What Image.open / pytesseract.image_to_string do with the image bytes:
\* raise (corrupt bytes, engine failure) or return raw text.
Images ==
    {[raises |-> TRUE, text |-> << >>]}
    \cup {[raises |-> FALSE, text |-> t] : t \in SeqsUpTo(OcrAlphabet, MaxOcrLen)}

\* line 27: captcha_text.strip().replace(' ', '').replace('\n', '')
CleanOcrText(t) == Remove(Remove(Strip(t), " "), "\n")

OcrAccepts_Short(t) == Len(t) >= 3

solve_captcha_from_bytes_NoExcept(img) ==
    IF img.raises
    THEN RaisedVal
    ELSE LET captcha_text == CleanOcrText(img.text)
         IN  IF Len(captcha_text) >= 4 THEN captcha_text ELSE NoneVal

\* line 29: len(captcha_text) >= 4
OcrAccepts(t) == Len(t) >= 4

\* OCRCaptchaSolver.solve_captcha_from_bytes
solve_captcha_from_bytes(img) ==
    IF img.raises
    THEN NoneVal                                   \* except Exception: return None
    ELSE LET captcha_text == CleanOcrText(img.text)
         IN  IF OcrAccepts(captcha_text) THEN captcha_text ELSE NoneVal

solve_manual_captcha_None(img) == NoneVal

\* SimpleCaptchaSolver.solve_manual_captcha, lines 43-50: the placeholder
solve_manual_captcha(img) == <<"1", "2", "3", "4">>

CaptchaIdle ==
    /\ cpc = "off"
    /\ image = [raises |-> TRUE, text |-> << >>]
    /\ ocr_result = NoneVal
    /\ manual_calls = 0
    /\ solution = NoneVal

CaptchaInit ==
    /\ cpc = "ocr"
    /\ image \in Images
    /\ ocr_result = NoneVal
    /\ manual_calls = 0
    /\ solution = NoneVal

\* HybridCaptchaSolver.solve_captcha, lines 64-67: the OCR strategy;
\* solve_captcha has no try of its own, what a strategy raises leaves it
SolveOcr ==
    /\ cpc = "ocr"
    /\ ocr_result' = solve_captcha_from_bytes(image)
    /\ IF ocr_result' = RaisedVal
       THEN /\ solution' = solution
            /\ cpc' = "raised"
       ELSE IF Truthy(ocr_result')
       THEN /\ solution' = ocr_result'
            /\ cpc' = "ret"
       ELSE /\ solution' = solution
            /\ cpc' = "manual"
    /\ UNCHANGED <<image, manual_calls>>
    /\ UNCHANGED <<topoVars, searchVars, gateVars, runVars>>

\* HybridCaptchaSolver.solve_captcha, lines 69-76: the fallback strategy
SolveManual ==
    /\ cpc = "manual"
    /\ manual_calls' = manual_calls + 1
    /\ LET s == solve_manual_captcha(image)
       IN  solution' = IF Truthy(s) THEN s ELSE NoneVal
    /\ cpc' = "ret"
    /\ UNCHANGED <<image, ocr_result>>
    /\ UNCHANGED <<topoVars, searchVars, gateVars, runVars>>

CaptchaNext == SolveOcr \/ SolveManual

-----------------------------------------------------------------------------
(* scapper.py: enumerate_high_courts, enumerate_benches *)

Str0      == <<"0">>
StrSelect == <<"S", "e", "l", "e", "c", "t">>

\* value attributes an <option> can carry: absent, "", " ", "0", "26", " 3 "
OptionValues ==
    {NoneVal, << >>, <<" ">>, Str0, <<"2", "6">>, <<" ", "3", " ">>}

\* display texts: "Select", "select", "DL", " KA "
OptionTexts ==
    {StrSelect, <<"s", "e", "l", "e", "c", "t">>, <<"D", "L">>,
     <<" ", "K", "A", " ">>}

\* an <option> element: its value attribute (None when absent) and its text
Options == [value : OptionValues, text : OptionTexts]

OptionLists == SeqsUpTo(Options, MaxOpts)

\* line 99: val and val.strip() and val != "0"
CourtKept(val) == Truthy(val) /\ Truthy(Strip(val)) /\ val # Str0

\* lines 96-100: the loop over the options
RECURSIVE CourtsOf(_)
CourtsOf(opts) ==
    IF opts = << >> THEN << >>
    ELSE LET opt  == Head(opts)
             rest == CourtsOf(Tail(opts))
         IN  IF CourtKept(opt.value)
             THEN <<[value |-> Strip(opt.value), text |-> Strip(opt.text)]>> \o rest
             ELSE rest

\* enumerate_high_courts(page); failed: a page call raised inside the try
enumerate_high_courts(visible, failed, opts) ==
    IF failed THEN << >>                 \* lines 105-107
    ELSE IF ~visible THEN << >>          \* lines 89-91
    ELSE CourtsOf(opts)

\* runs of blanks collapsed to one blank
RECURSIVE Collapse(_)
Collapse(s) ==
    IF Len(s) < 2 THEN s
    ELSE IF IsSpace(s[1]) /\ IsSpace(s[2]) THEN Collapse(Tail(s))
    ELSE <<s[1]>> \o Collapse(Tail(s))

\* the DOM's HTMLOptionElement.value read at line 156: the value attribute,
\* or, without one, the element's text, stripped and collapsed
OptionDomValue(opt) ==
    IF opt.value = NoneVal THEN Collapse(Strip(opt.text)) ELSE opt.value

\* line 156: opts.map(o => ({ text: o.textContent.trim(), value: o.value }))
RECURSIVE MapOptions(_)
MapOptions(opts) ==
    IF opts = << >> THEN << >>
    ELSE <<[text |-> Strip(Head(opts).text), value |-> OptionDomValue(Head(opts))]>>
         \o MapOptions(Tail(opts))

\* line 158: o['value'].strip() and 'Select' not in o['text']
BenchKept(o) == Truthy(Strip(o.value)) /\ ~Contains(o.text, StrSelect)

\* enumerate_benches after select_option: present is whether some document
\* holds #court_complex_code; the wait at lines 141-147 succeeds when the
\* selector has more than one option; failed is eval_on_selector_all raising
enumerate_benches(present, failed, opts) ==
    IF ~(present /\ Len(opts) > 1) THEN << >>      \* lines 148-150
    ELSE IF failed THEN << >>                      \* lines 160-161
    ELSE SelectSeq(MapOptions(opts), BenchKept)

TopoIdle ==
    /\ tpc = "off"
    /\ select_visible = FALSE
    /\ bench_present = FALSE
    /\ dom_options = << >>
    /\ courts = << >>
    /\ benches = << >>
    /\ topo_error = "none"
    /\ bench_frame = "none"
    /\ poll_log = << >>

\* the enumerator about to run and the selector it will read
TopoInit ==
    /\ tpc \in {"courts", "benches"}
    /\ select_visible \in BOOLEAN
    /\ bench_present \in BOOLEAN
    /\ dom_options \in OptionLists
    /\ courts = << >>
    /\ benches = << >>
    /\ topo_error = "none"
    /\ bench_frame = "none"
    /\ poll_log = << >>

EnumerateHighCourts ==
    /\ tpc = "courts"
    /\ \E failed \in BOOLEAN :
          /\ courts' = enumerate_high_courts(select_visible, failed, dom_options)
          /\ topo_error' = IF failed THEN "caught" ELSE "none"
    /\ tpc' = "courts_done"
    /\ UNCHANGED <<select_visible, bench_present, dom_options, benches,
                   bench_frame, poll_log>>
    /\ UNCHANGED <<captchaVars, searchVars, gateVars, runVars>>

\* select_ok: page.select_option (line 118) returned; it is outside any try
EnumerateBenches ==
    /\ tpc = "benches"
    /\ \E select_ok \in BOOLEAN, failed \in BOOLEAN :
          IF select_ok
          THEN /\ benches' = enumerate_benches(bench_present, failed, dom_options)
               /\ topo_error' = IF failed THEN "caught" ELSE "none"
          ELSE /\ benches' = benches
               /\ topo_error' = "raised"
    /\ tpc' = "benches_done"
    /\ UNCHANGED <<select_visible, bench_present, dom_options, courts,
                   bench_frame, poll_log>>
    /\ UNCHANGED <<captchaVars, searchVars, gateVars, runVars>>

TopoNext == EnumerateHighCourts \/ EnumerateBenches

\* enumerate_benches step by step: the selection of the court, the polls of
\* the frames, the wait for the options and their extraction

\* line 125: for attempt in range(10)
MaxPolls == 10

\* page.frames: the main frame and an embedded one
PageFrames == {"main", "sub"}

\* line 128 on one frame: an element, None, or an exception (lines 131-132)
FrameOutcomes == {"found", "absent", "error"}

\* a placeholder <option> and a bench <option>
PollOptions ==
    {[value |-> << >>, text |-> StrSelect],
     [value |-> <<"2", "6">>, text |-> <<"D", "L">>]}

PollOptionLists == SeqsUpTo(PollOptions, MaxOpts)

BenchPollInit ==
    /\ tpc = "select"
    /\ select_visible = FALSE
    /\ bench_present \in BOOLEAN
    /\ dom_options \in PollOptionLists
    /\ courts = << >>
    /\ benches = << >>
    /\ topo_error = "none"
    /\ bench_frame = "none"
    /\ poll_log = << >>

\* lines 126-130: the first frame, main frame first, whose query finds it
FoundFrame(o) ==
    IF o["main"] = "found" THEN "main"
    ELSE IF o["sub"] = "found" THEN "sub"
    ELSE "none"

PollsLeft_OneMore(n) == n <= MaxPolls

\* line 125: another poll follows n polls when n < 10
PollsLeft(n) == n < MaxPolls

\* line 118: page.select_option, outside any try
SelectCourt ==
    /\ tpc = "select"
    /\ \E select_ok \in BOOLEAN :
          IF select_ok
          THEN tpc' = "poll" /\ topo_error' = topo_error
          ELSE tpc' = "benches_done" /\ topo_error' = "raised"
    /\ UNCHANGED <<select_visible, bench_present, dom_options, courts, benches,
                   bench_frame, poll_log>>
    /\ UNCHANGED <<captchaVars, searchVars, gateVars, runVars>>

\* lines 125-135: one poll of every frame; a frame can hold the selector
\* only if some document holds it
PollFrames ==
    /\ tpc = "poll"
    /\ \E o \in [PageFrames -> FrameOutcomes] :
          /\ ~bench_present => FoundFrame(o) = "none"
          /\ bench_frame' = FoundFrame(o)
    /\ poll_log' = Append(poll_log, bench_frame' # "none")
    /\ tpc' = IF bench_frame' # "none" THEN "wait"               \* lines 133-134
              ELSE IF PollsLeft(Len(poll_log')) THEN "poll"
              ELSE "wait"
    /\ UNCHANGED <<select_visible, bench_present, dom_options, courts, benches,
                   topo_error>>
    /\ UNCHANGED <<captchaVars, searchVars, gateVars, runVars>>

\* lines 137-163: present is whether the target document holds the selector
\* during the wait; failed is eval_on_selector_all raising
ExtractBenches ==
    /\ tpc = "wait"
    /\ \E present \in BOOLEAN, failed \in BOOLEAN :
          /\ present => (bench_frame # "none" \/ bench_present)
          /\ benches' = enumerate_benches(present, failed, dom_options)
          /\ topo_error' = IF failed THEN "caught" ELSE "none"
    /\ tpc' = "benches_done"
    /\ UNCHANGED <<select_visible, bench_present, dom_options, courts,
                   bench_frame, poll_log>>
    /\ UNCHANGED <<captchaVars, searchVars, gateVars, runVars>>

BenchPollNext == SelectCourt \/ PollFrames \/ ExtractBenches

-----------------------------------------------------------------------------
(* scapper.py: perform_search_and_extract *)

\* the arguments of a call; max_retries defaults to 3 (line 174)
Calls ==
    [court_code : {"High Court of Delhi"}, state_code : {"26"},
     court_complex_code : {"1"}, search_type : {"party_name", "case_number"},
     query : {"kumar"}, year : {"2024"}, max_retries : 1..MaxRetries]

\* outcomes of session.get(captcha_url) followed by raise_for_status()
GetOutcomes == {"ok", "http_error", "exception"}

\* values solve_captcha hands back through its interface Optional[str]
\* (captcha_solver.py line 90): no solution, the placeholder, an OCR reading
ResolverResults == {NoneVal, <<"1", "2", "3", "4">>, <<"A", "7", "A", "7">>}

\* <td> cells: a cell is the sequence of its text nodes
CellCase   == << <<"W", "1">> >>
CellParty  == << <<"K">> >>
CellDate   == << <<"1", "2">> >>
CellStatus == << <<"P">> >>
CellPadded == << <<" ", "K", " ">> >>           \* <td> K </td>
CellNested == << <<"K", " ">>, <<"v">> >>       \* <td>K <b>v</b></td>

\* <tr> rows: a row is the sequence of its <td> cells
HeaderRow == << >>                                \* <th> cells only
DataRows ==
    { <<CellCase, CellParty, CellDate, CellStatus>>,
      <<CellCase, CellPadded, CellDate, CellStatus>>,
      <<CellCase, CellNested, CellDate, CellStatus>>,
      <<CellCase, CellParty, CellDate>>,
      <<CellCase, CellParty, CellDate, CellStatus, CellParty>> }

\* the <tr> sequences of a table#searchResults: none at all, or a header row
\* followed by data rows
TableRows ==
    { << >> } \cup { <<HeaderRow>> \o d : d \in SeqsUpTo(DataRows, MaxRows) }

\* config.py: the result-count ceiling
MAX_RESULTS == 20

\* a table with more data rows than the ceiling
LongTable ==
    <<HeaderRow>> \o
    [i \in 1..(MAX_RESULTS + 1) |->
        IF i = 1 THEN <<CellCase, CellPadded, CellDate, CellStatus>>
                 ELSE <<CellCase, CellParty, CellDate, CellStatus>>]

\* what session.post(...) gives: an exception (no response), a non-2xx
\* response, a 401/403 response (the session is rejected), or a 2xx page with or without table#searchResults (primary) and
\* table#dispTable (secondary)
Responses ==
    {[status |-> st, primary |-> FALSE, rows |-> << >>, secondary |-> FALSE] :
        st \in {"exception", "http_error", "unauthenticated"}}
    \cup {[status |-> "ok", primary |-> FALSE, rows |-> << >>, secondary |-> b] :
        b \in BOOLEAN}
    \cup {[status |-> "ok", primary |-> TRUE, rows |-> t, secondary |-> FALSE] :
        t \in TableRows \cup {LongTable}}

NoResponse == [status |-> "none", primary |-> FALSE, rows |-> << >>, secondary |-> FALSE]

\* Tag.get_text(strip=True): the text nodes stripped, empty ones dropped,
\* joined without a separator
RECURSIVE get_text(_)
get_text(cell) ==
    IF cell = << >> THEN << >>
    ELSE Strip(Head(cell)) \o get_text(Tail(cell))

\* lines 238-244: one record; cols[3] raises IndexError on a short row
RowParses(cols) == Len(cols) >= 4

RowRecord_Swapped(cols) ==
    [case_number |-> get_text(cols[1]),
     party_name  |-> get_text(cols[3]),
     next_date   |-> get_text(cols[2]),
     status      |-> get_text(cols[4])]

RowRecord(cols) ==
    [case_number |-> get_text(cols[1]),
     party_name  |-> get_text(cols[2]),
     next_date   |-> get_text(cols[3]),
     status      |-> get_text(cols[4])]

RowsAfterHeader_SkipTwo(trs) == IF Len(trs) < 2 THEN << >> ELSE Tail(Tail(trs))

\* line 235: results_table.select("tr")[1:]
RowsAfterHeader(trs) == IF trs = << >> THEN << >> ELSE Tail(trs)

\* lines 234-244: the records of the table
RECURSIVE ParseRows(_)
ParseRows(rows) ==
    IF rows = << >> THEN << >>
    ELSE <<RowRecord(Head(rows))>> \o ParseRows(Tail(rows))

\* the parse raises when some row is short
ParseRaises(resp) ==
    \E i \in 1..Len(RowsAfterHeader(resp.rows)) :
        ~RowParses(RowsAfterHeader(resp.rows)[i])

\* lines 206-216
BuildPayload(c, sol) ==
    [court_code |-> c.court_code,
     state_code |-> c.state_code,
     court_complex_code |-> c.court_complex_code,
     caseStatusSearchType |->
        IF c.search_type = "party_name" THEN "CSpartyName" ELSE "CScaseNumber",
     captcha |-> sol,
     f |-> "Both",
     petres_name |-> IF c.search_type = "party_name" THEN c.query ELSE "",
     caseNo |-> IF c.search_type = "case_number" THEN c.query ELSE "",
     rgyear |-> c.year]

NoPayload == [captcha |-> NoneVal]
NoImage   == [id |-> 0, after_posts |-> 0]

\* what the retry loop sees of a response
Summary(resp) ==
    [status |-> resp.status, primary |-> resp.primary,
     secondary |-> resp.secondary,
     rows_ok |-> \A i \in 2..Len(resp.rows) : Len(resp.rows[i]) >= 4]

\* main.py, lines 102-110: the arguments of search_by_party_name
PartyNameArgs ==
    [court_name : {"High Court of Delhi"}, court_value : {"26", "3"},
     bench_value : {"1", "2"}, bench_name : {"Principal Bench"},
     party_name : {"kumar"}]

NoArgs == [court_name |-> "", court_value |-> "", bench_value |-> "",
           bench_name |-> "", party_name |-> ""]

\* line 173: year: str = "2024"
DefaultYear == "2024"

\* line 174: max_retries: int = 3
DefaultMaxRetries == 3

\* main.py, lines 106-108: perform_search_and_extract(self.page, court_name,
\* court_value, bench_value, bench_name, "party_name", party_name), the six
\* values bound by position to court_code, state_code, court_complex_code,
\* search_type, query, year
search_by_party_name(a) ==
    [court_code |-> a.court_name,
     state_code |-> a.court_value,
     court_complex_code |-> a.bench_value,
     search_type |-> a.bench_name,
     query |-> "party_name",
     year |-> a.party_name,
     max_retries |-> DefaultMaxRetries]

\* the page as run_comprehensive_search leaves it for a search: a court is
\* selected in #sess_state_code and the Case Status document is loaded
PageBefore == [court |-> "26", document |-> "case_status"]

Pages == [court : {"26", "3"}, document : {"case_status"}]

context_cookies_Reload(p) == [p EXCEPT !.document = "reloaded"]

\* line 183: page.context.cookies() reads the jar and leaves the page as it is
context_cookies(p) == p

SearchIdle ==
    /\ pc = "off"
    /\ search_args = NoArgs
    /\ call = [max_retries |-> 0]
    /\ fetches = 0
    /\ resolves = 0
    /\ captcha_image = NoImage
    /\ captcha_solution = NoneVal
    /\ payload = NoPayload
    /\ attempt = 0
    /\ posts = << >>
    /\ hist = << >>
    /\ lastResp = NoResponse
    /\ returned = << >>
    /\ exit = "none"
    /\ raised = FALSE
    /\ search_logs = << >>
    /\ page = PageBefore
    /\ cookie_reads = 0

\* the state at the entry of perform_search_and_extract
SearchEntry ==
    /\ pc = "fetch"
    /\ fetches = 0
    /\ resolves = 0
    /\ captcha_image = NoImage
    /\ captcha_solution = NoneVal
    /\ payload = NoPayload
    /\ attempt = 0
    /\ posts = << >>
    /\ hist = << >>
    /\ lastResp = NoResponse
    /\ returned = << >>
    /\ exit = "none"
    /\ raised = FALSE
    /\ search_logs = << >>
    /\ cookie_reads = 0

\* a party-name search started through ECourtsScraper.search_by_party_name
PartySearchInit ==
    /\ search_args \in PartyNameArgs
    /\ call = search_by_party_name(search_args)
    /\ page \in Pages
    /\ SearchEntry

SearchInit ==
    /\ pc = "fetch"
    /\ search_args = NoArgs
    /\ call \in Calls
    /\ fetches = 0
    /\ resolves = 0
    /\ captcha_image = NoImage
    /\ captcha_solution = NoneVal
    /\ payload = NoPayload
    /\ attempt = 0
    /\ posts = << >>
    /\ hist = << >>
    /\ lastResp = NoResponse
    /\ returned = << >>
    /\ exit = "none"
    /\ raised = FALSE
    /\ search_logs = << >>
    /\ page = PageBefore
    /\ cookie_reads = 0

\* a return statement: the value, and which one it was
Return(value, how) ==
    /\ pc' = "done"
    /\ returned' = value
    /\ exit' = how

\* lines 183-192 and 196-198: the cookies are read, the challenge image is
\* fetched once; a failed GET ends the call
FetchChallenge ==
    /\ pc = "fetch"
    /\ cookie_reads' = cookie_reads + 1
    /\ page' = context_cookies(page)
    /\ fetches' = fetches + 1
    /\ \E got \in GetOutcomes :
          IF got = "ok"
          THEN /\ captcha_image' = [id |-> fetches + 1, after_posts |-> Len(posts)]
               /\ pc' = "resolve"
               /\ UNCHANGED <<returned, exit>>
          ELSE /\ captcha_image' = captcha_image
               /\ Return(<< >>, "captcha_exception")
    /\ UNCHANGED <<search_args, call, resolves, captcha_solution, payload, attempt, posts,
                   hist, lastResp, raised, search_logs>>
    /\ UNCHANGED <<captchaVars, topoVars, gateVars, runVars>>

\* lines 195, 199-216: the challenge is resolved; without a solution the call
\* ends, with one the payload is built
ResolveWith(sol) ==
    /\ resolves' = resolves + 1
    /\ captcha_solution' = sol
    /\ IF ~Truthy(sol)
       THEN /\ Return(<< >>, "captcha_unsolved")
            /\ payload' = payload
       ELSE /\ payload' = BuildPayload(call, sol)
            /\ pc' = "post"
            /\ UNCHANGED <<returned, exit>>
    /\ attempt' = 0
    /\ UNCHANGED <<search_args, call, fetches, captcha_image, posts, hist, lastResp, raised,
                   search_logs, page, cookie_reads>>

\* the resolver seen through its interface: any Optional[str]
Resolve ==
    /\ pc = "resolve"
    /\ \E sol \in ResolverResults : ResolveWith(sol)
    /\ UNCHANGED <<captchaVars, topoVars, gateVars, runVars>>

\* line 195 with the shipped resolver: solve_captcha (captcha_solver.py,
\* lines 90-93) is entered with the bytes of the challenge image
CallSolver ==
    /\ pc = "resolve"
    /\ pc' = "solving"
    /\ cpc' = "ocr"
    /\ image' \in Images
    /\ ocr_result' = NoneVal
    /\ manual_calls' = 0
    /\ solution' = NoneVal
    /\ UNCHANGED <<search_args, call, fetches, resolves, captcha_image, captcha_solution,
                   payload, attempt, posts, hist, lastResp, returned, exit, raised,
                   search_logs, page, cookie_reads>>
    /\ UNCHANGED <<topoVars, gateVars, runVars>>

\* solve_captcha has returned its solution to line 195, or an exception
\* has left it and is caught at lines 196-198
SolverReturns ==
    /\ pc = "solving"
    /\ cpc \in {"ret", "raised"}
    /\ IF cpc = "ret"
       THEN ResolveWith(solution)
       ELSE /\ Return(<< >>, "captcha_exception")
            /\ UNCHANGED <<search_args, call, fetches, resolves, captcha_image,
                           captcha_solution, payload, attempt, posts, hist, lastResp,
                           raised, search_logs, page, cookie_reads>>
    /\ UNCHANGED <<captchaVars, topoVars, gateVars, runVars>>

LoopContinues_OneMore(next_attempt, max_retries) == next_attempt <= max_retries

\* line 219: for attempt in range(max_retries)
LoopContinues(next_attempt, max_retries) == next_attempt < max_retries

ExceptOutcome_Reraise(att, max_retries) ==
    IF att < max_retries - 1 THEN "continue" ELSE "raise"

\* lines 249-254: what the except branch does on this attempt
ExceptOutcome(att, max_retries) ==
    IF att < max_retries - 1 THEN "continue" ELSE "return"

ParseOutcome_RetryEmpty(resp) ==
    IF resp.status # "ok" THEN "except"
    ELSE IF ~resp.primary THEN "continue"
    ELSE IF ParseRaises(resp) THEN "except"
    ELSE IF RowsAfterHeader(resp.rows) = << >> THEN "continue"
    ELSE "return"

\* lines 222-247: where the body of the try goes for a response
ParseOutcome(resp) ==
    IF resp.status # "ok" THEN "except"              \* post / raise_for_status
    ELSE IF ~resp.primary THEN "continue"            \* lines 228-232
    ELSE IF ParseRaises(resp) THEN "except"          \* IndexError at 239-242
    ELSE "return"                                    \* line 247

\* "continue": the next iteration, or the end of the loop and line 255
NextIteration ==
    /\ attempt' = attempt + 1
    /\ IF LoopContinues(attempt + 1, call.max_retries)
       THEN /\ pc' = "post"
            /\ UNCHANGED <<returned, exit>>
       ELSE Return(<< >>, "exhausted")

\* lines 219-255: one iteration of the retry loop, the POST and the parse
Post ==
    /\ pc = "post"
    /\ \E resp \in Responses :
          /\ posts' = Append(posts, [payload |-> payload, challenge |-> captcha_image,
                                      tokens |-> cookie_reads])
          /\ lastResp' = resp
          /\ hist' = Append(hist, Summary(resp))
          /\ LET todo == IF ParseOutcome(resp) = "except"
                         THEN ExceptOutcome(attempt, call.max_retries)
                         ELSE ParseOutcome(resp)
             IN  /\ raised' = (todo = "raise")
                 /\ CASE todo = "continue" -> NextIteration
                      [] todo = "return" ->
                            /\ attempt' = attempt
                            /\ IF ParseOutcome(resp) = "except"
                               THEN Return(<< >>, "error")
                               ELSE Return(ParseRows(RowsAfterHeader(resp.rows)), "found")
                      [] OTHER ->
                            /\ attempt' = attempt
                            /\ Return(<< >>, "raised")
    /\ UNCHANGED <<search_args, call, fetches, resolves, captcha_image, captcha_solution,
                   payload, search_logs, page, cookie_reads>>
    /\ UNCHANGED <<captchaVars, topoVars, gateVars, runVars>>

SearchNext == FetchChallenge \/ Resolve \/ Post

\* a search of one attempt, resolved by HybridCaptchaSolver
HybridSearchInit ==
    /\ search_args = NoArgs
    /\ call \in {c \in Calls : c.max_retries = 1}
    /\ page = PageBefore
    /\ SearchEntry

HybridSearchNext ==
    \/ FetchChallenge \/ CallSolver \/ SolveOcr \/ SolveManual
    \/ SolverReturns \/ Post

-----------------------------------------------------------------------------
(* scapper.py: open_case_status_page, handle_popup_if_present;             *)
(* main.py: ECourtsScraper.initialize                                      *)

\* lines 14-18: the candidate locators of the Case Status link
NumCandidates == 3

\* lines 45-57: the dismissal targets
NumPopupSelectors == 11

\* one pass of the loop at lines 19-30: click() raises; click() returns and
\* wait_for_load_state raises; both return
ClickOutcomes == {"click_raises", "load_raises", "ok"}

\* one pass of the loop at lines 59-68: is_visible() answers False; it raises;
\* it answers True and click() raises; click() returns and wait_for_timeout
\* raises; all three return
ProbeOutcomes == {"hidden", "probe_raises", "click_raises", "settle_raises", "ok"}

GateIdle ==
    /\ gpc = "off"
    /\ cand = 0
    /\ gate_log = << >>
    /\ pk = 0
    /\ popup_clicks = 0
    /\ visible_seen = FALSE
    /\ escape_sent = FALSE
    /\ popup_ret = "none"
    /\ open_result = "none"
    /\ init_result = "none"

GateInit ==
    /\ gpc = "goto"
    /\ cand = 1
    /\ gate_log = << >>
    /\ pk = 0
    /\ popup_clicks = 0
    /\ visible_seen = FALSE
    /\ escape_sent = FALSE
    /\ popup_ret = "none"
    /\ open_result = "none"
    /\ init_result = "none"

ExhaustedResult_False == "False"

\* line 35: return True after every candidate failed
ExhaustedResult == "True"

\* handle_popup_if_present returns ret to line 26 or line 34, and
\* open_case_status_page returns at line 28 or line 35
ReturnFromPopup(ret) ==
    /\ popup_ret' = ret
    /\ open_result' = IF cand > NumCandidates THEN ExhaustedResult ELSE "True"
    /\ gpc' = "opened"

\* main.py, lines 49-52 and 63-65: goto and the settle wait
InitializeGoto ==
    /\ gpc = "goto"
    /\ \E ok \in BOOLEAN :
          IF ok THEN gpc' = "open" /\ init_result' = init_result
          ELSE gpc' = "done" /\ init_result' = "False"
    /\ UNCHANGED <<cand, gate_log, pk, popup_clicks, visible_seen, escape_sent,
                   popup_ret, open_result>>
    /\ UNCHANGED <<captchaVars, topoVars, searchVars, runVars>>

\* lines 19-30: one candidate locator
TryCandidate ==
    /\ gpc = "open"
    /\ cand <= NumCandidates
    /\ \E out \in ClickOutcomes :
          CASE out = "click_raises" ->
                 /\ gate_log' = Append(gate_log, "not_clicked")
                 /\ cand' = cand + 1
                 /\ gpc' = gpc
            [] out = "load_raises" ->
                 /\ gate_log' = Append(gate_log, "clicked")
                 /\ cand' = cand + 1
                 /\ gpc' = gpc
            [] out = "ok" ->
                 /\ gate_log' = gate_log \o <<"clicked", "popup">>
                 /\ cand' = cand
                 /\ gpc' = "popup"
    /\ UNCHANGED <<pk, popup_clicks, visible_seen, escape_sent, popup_ret,
                   open_result, init_result>>
    /\ UNCHANGED <<captchaVars, topoVars, searchVars, runVars>>

\* lines 32-34: no candidate left
Exhausted ==
    /\ gpc = "open"
    /\ cand > NumCandidates
    /\ gate_log' = Append(gate_log, "popup")
    /\ gpc' = "popup"
    /\ UNCHANGED <<cand, pk, popup_clicks, visible_seen, escape_sent, popup_ret,
                   open_result, init_result>>
    /\ UNCHANGED <<captchaVars, topoVars, searchVars, runVars>>

\* lines 40-42 and 80-81: the first wait, inside the outer try only
PopupEnter ==
    /\ gpc = "popup"
    /\ \E ok \in BOOLEAN :
          IF ok
          THEN /\ gpc' = "probe"
               /\ pk' = 1
               /\ UNCHANGED <<popup_ret, open_result>>
          ELSE /\ ReturnFromPopup("None")
               /\ pk' = pk
    /\ UNCHANGED <<cand, gate_log, popup_clicks, visible_seen, escape_sent,
                   init_result>>
    /\ UNCHANGED <<captchaVars, topoVars, searchVars, runVars>>

\* lines 59-68: one dismissal target
PopupProbe ==
    /\ gpc = "probe"
    /\ pk <= NumPopupSelectors
    /\ \E out \in ProbeOutcomes :
          /\ visible_seen' = (visible_seen \/ out \in {"click_raises", "settle_raises", "ok"})
          /\ popup_clicks' = popup_clicks + (IF out \in {"settle_raises", "ok"} THEN 1 ELSE 0)
          /\ IF out = "ok"
             THEN /\ ReturnFromPopup("True")               \* line 66
                  /\ pk' = pk
             ELSE /\ pk' = pk + 1                          \* lines 67-68
                  /\ UNCHANGED <<gpc, popup_ret, open_result>>
    /\ UNCHANGED <<cand, gate_log, escape_sent, init_result>>
    /\ UNCHANGED <<captchaVars, topoVars, searchVars, runVars>>

\* lines 71-78: no target was clicked to the end; pressed is press() returning
PopupEscape ==
    /\ gpc = "probe"
    /\ pk > NumPopupSelectors
    /\ \E pressed \in BOOLEAN : escape_sent' = pressed
    /\ ReturnFromPopup("None")
    /\ UNCHANGED <<cand, gate_log, pk, popup_clicks, visible_seen, init_result>>
    /\ UNCHANGED <<captchaVars, topoVars, searchVars, runVars>>

\* main.py, lines 55-61
InitializeReturn ==
    /\ gpc = "opened"
    /\ init_result' = IF open_result = "True" THEN "True" ELSE "False"
    /\ gpc' = "done"
    /\ UNCHANGED <<cand, gate_log, pk, popup_clicks, visible_seen, escape_sent,
                   popup_ret, open_result>>
    /\ UNCHANGED <<captchaVars, topoVars, searchVars, runVars>>

GateNext ==
    \/ InitializeGoto \/ TryCandidate \/ Exhausted
    \/ PopupEnter \/ PopupProbe \/ PopupEscape \/ InitializeReturn

-----------------------------------------------------------------------------
(* main.py: ECourtsScraper.run_comprehensive_search; database.py: the sink *)

\* line 137: target_court_values = ['26', '3']
TargetCourtValues == {"26", "3"}

\* values enumerate_high_courts can return: the two targets and another court
RunCourtValues == {"26", "3", "7"}
CourtValueLists == SeqsUpTo(RunCourtValues, MaxCourts)

\* the bench lists of a court: no bench, one bench, two benches
BenchValueLists == {<< >>, <<"1">>, <<"1", "2">>}

\* perform_search: an exception (cookies(), line 183 of scapper.py), an empty
\* list, or a non-empty list of records
SearchOutcomes == {"raised", "empty", "results"}

\* lines 69-82: the list of enumerate_high_courts, [] when it raised
get_all_high_courts(failed, cs) == IF failed THEN << >> ELSE cs

\* lines 86-100: the list of enumerate_benches, [] when it raised
get_benches_for_court(failed, bs) == IF failed THEN << >> ELSE bs

\* line 138: [c for c in courts if c['value'] in target_court_values]
FilterCourts(cs) == SelectSeq(cs, LAMBDA v : v \in TargetCourtValues)

\* database.py, insert_case_record: without a manager the record is skipped
\* (lines 219-221); a manager whose connect() failed has connection None and
\* cursor() raises (line 100); with a connection, execute is given the
\* undefined name r (line 112); both exceptions are caught at lines 118-120
insert_case_record(d) ==
    CASE d = "unset"     -> FALSE
      [] d = "broken"    -> FALSE
      [] d = "no_tables" -> FALSE
      [] d = "ready"     -> FALSE

\* lines 121-127: the value of insert_case_record is not looked at
save_to_database(d) == TRUE

OnSearchException_Propagate == "propagate"

\* lines 188-189: the exception of a search is logged, the loop goes on
OnSearchException == "continue"

RunIdle ==
    /\ rpc = "off"
    /\ db = "unset"
    /\ all_courts = << >>
    /\ filtered_courts = << >>
    /\ ci = 0
    /\ cur_benches = << >>
    /\ bi = 0
    /\ to_search = << >>
    /\ searched = << >>
    /\ first_failure = -1
    /\ saved_batches = 0
    /\ stored = 0
    /\ run_raised = FALSE
    /\ main_exit = "none"
    /\ db_log = << >>

\* main, lines 202-206: init_database may have failed before the run
RunInit ==
    /\ rpc = "start"
    /\ db \in {"unset", "broken", "no_tables", "ready"}
    /\ all_courts = << >>
    /\ filtered_courts = << >>
    /\ ci = 0
    /\ cur_benches = << >>
    /\ bi = 0
    /\ to_search = << >>
    /\ searched = << >>
    /\ first_failure = -1
    /\ saved_batches = 0
    /\ stored = 0
    /\ run_raised = FALSE
    /\ main_exit = "none"
    /\ db_log = << >>

\* position after court i is finished: the next court, or lines 193-194
AfterCourt(i, n) == IF i < n THEN "court" ELSE "done"

\* the first local failure, as the number of searches made when it happened
NoteFailure(failed, n) == IF failed /\ first_failure = -1 THEN n ELSE first_failure

\* lines 133-147
RunStart ==
    /\ rpc = "start"
    /\ \E failed \in BOOLEAN, cs \in CourtValueLists :
          /\ all_courts' = get_all_high_courts(failed, cs)
          /\ filtered_courts' = FilterCourts(all_courts')
          /\ IF filtered_courts' = << >>
             THEN rpc' = "done" /\ ci' = ci             \* lines 140-143
             ELSE rpc' = "court" /\ ci' = 1
    /\ UNCHANGED <<db, cur_benches, bi, to_search, searched, first_failure,
                   saved_batches, stored, run_raised, main_exit, db_log>>
    /\ UNCHANGED <<captchaVars, topoVars, searchVars, gateVars>>

\* lines 150-162: the benches of court ci
RunCourt ==
    /\ rpc = "court"
    /\ \E failed \in BOOLEAN, bs \in BenchValueLists :
          /\ cur_benches' = get_benches_for_court(failed, bs)
          /\ to_search' = to_search \o
                [k \in 1..Len(cur_benches') |-> <<filtered_courts[ci], cur_benches'[k]>>]
          /\ first_failure' = NoteFailure(cur_benches' = << >>, Len(searched))
          /\ IF cur_benches' = << >>
             THEN /\ rpc' = AfterCourt(ci, Len(filtered_courts))   \* line 162
                  /\ ci' = ci + 1
                  /\ bi' = bi
             ELSE /\ rpc' = "bench"
                  /\ ci' = ci
                  /\ bi' = 1
    /\ UNCHANGED <<db, all_courts, filtered_courts, searched, saved_batches,
                   stored, run_raised, main_exit, db_log>>
    /\ UNCHANGED <<captchaVars, topoVars, searchVars, gateVars>>

\* lines 164-191: the search of bench bi of court ci
RunSearch ==
    /\ rpc = "bench"
    /\ searched' = Append(searched, <<filtered_courts[ci], cur_benches[bi]>>)
    /\ \E out \in SearchOutcomes :
          /\ first_failure' = NoteFailure(out # "results", Len(searched'))
          /\ IF out = "results"
             THEN /\ saved_batches' = saved_batches + (IF save_to_database(db) THEN 1 ELSE 0)
                  /\ stored' = stored + (IF insert_case_record(db) THEN 1 ELSE 0)
             ELSE UNCHANGED <<saved_batches, stored>>
          /\ IF out = "raised" /\ OnSearchException = "propagate"
             THEN /\ rpc' = "done"
                  /\ run_raised' = TRUE
                  /\ UNCHANGED <<ci, bi>>
             ELSE /\ run_raised' = run_raised
                  /\ IF bi < Len(cur_benches)
                     THEN /\ rpc' = "bench"
                          /\ bi' = bi + 1
                          /\ ci' = ci
                     ELSE /\ rpc' = AfterCourt(ci, Len(filtered_courts))  \* line 191
                          /\ ci' = ci + 1
                          /\ bi' = bi
    /\ UNCHANGED <<db, all_courts, filtered_courts, cur_benches, to_search, main_exit,
                   db_log>>
    /\ UNCHANGED <<captchaVars, topoVars, searchVars, gateVars>>

\* lines 143 and 194: run_comprehensive_search has no return value
RunResult == "None"

\* main, lines 220-222: results['high_courts'], results['searches'] and
\* results['total_results'] need a mapping that holds these keys
SummaryKeys == {"high_courts", "searches", "total_results"}
HasSummary(r) == r # "None" /\ SummaryKeys \subseteq DOMAIN r

\* main, lines 216-229: the summary printed from the value of the run;
\* nothing in main catches what these lines raise
MainSummary ==
    /\ rpc = "done"
    /\ rpc' = "main_done"
    /\ main_exit' = IF ~run_raised /\ HasSummary(RunResult) THEN "returned" ELSE "raised"
    /\ UNCHANGED <<db, all_courts, filtered_courts, ci, cur_benches, bi, to_search,
                   searched, first_failure, saved_batches, stored, run_raised, db_log>>
    /\ UNCHANGED <<captchaVars, topoVars, searchVars, gateVars>>

RunNext == RunStart \/ RunCourt \/ RunSearch \/ MainSummary

-----------------------------------------------------------------------------
(* database.py: init_database, close_database *)

\* init_database on an unset manager: connect() and init_tables() return;
\* connect() raises (lines 30-32); init_tables() raises (lines 93-95)
InitOutcomes == {"ok", "connect_fails", "tables_fail"}

\* lines 203-212: _db_manager is assigned at line 208, before connect() and
\* init_tables() are called, and nothing unsets it when they raise
init_database(d, outcome) ==
    IF d # "unset" THEN d                             \* line 207
    ELSE CASE outcome = "ok"            -> "ready"
           [] outcome = "connect_fails" -> "broken"
           [] outcome = "tables_fail"   -> "no_tables"

\* lines 253-259: a manager, whatever its connection, is disconnected and unset
close_database(d) == "unset"

InitDatabase ==
    /\ Len(db_log) < MaxDbCalls
    /\ \E outcome \in InitOutcomes :
          /\ db' = init_database(db, outcome)
          /\ db_log' = Append(db_log,
                [op |-> "init", connect_tried |-> db = "unset",
                 raised |-> (db = "unset" /\ outcome # "ok")])
    /\ UNCHANGED <<rpc, all_courts, filtered_courts, ci, cur_benches, bi, to_search,
                   searched, first_failure, saved_batches, stored, run_raised, main_exit>>
    /\ UNCHANGED <<captchaVars, topoVars, searchVars, gateVars>>

CloseDatabase ==
    /\ Len(db_log) < MaxDbCalls
    /\ db' = close_database(db)
    /\ db_log' = Append(db_log, [op |-> "close", connect_tried |-> FALSE, raised |-> FALSE])
    /\ UNCHANGED <<rpc, all_courts, filtered_courts, ci, cur_benches, bi, to_search,
                   searched, first_failure, saved_batches, stored, run_raised, main_exit>>
    /\ UNCHANGED <<captchaVars, topoVars, searchVars, gateVars>>

DbNext == InitDatabase \/ CloseDatabase

-----------------------------------------------------------------------------
(* Specifications *)

\* one call of perform_search_and_extract
Init == SearchInit /\ CaptchaIdle /\ TopoIdle /\ GateIdle /\ RunIdle
Next == SearchNext
Spec == Init /\ [][Next]_vars

\* one party-name search started by ECourtsScraper.search_by_party_name
InitPartySearch == PartySearchInit /\ CaptchaIdle /\ TopoIdle /\ GateIdle /\ RunIdle
SpecPartySearch == InitPartySearch /\ [][Next]_vars

\* one call of HybridCaptchaSolver.solve_captcha
InitCaptcha == CaptchaInit /\ SearchIdle /\ TopoIdle /\ GateIdle /\ RunIdle
SpecCaptcha == InitCaptcha /\ [][CaptchaNext]_vars

\* one call of perform_search_and_extract with the shipped resolver
InitSearchHybrid == HybridSearchInit /\ CaptchaIdle /\ TopoIdle /\ GateIdle /\ RunIdle
SpecSearchHybrid == InitSearchHybrid /\ [][HybridSearchNext]_vars

\* one call of ECourtsScraper.run_comprehensive_search
InitRun == RunInit /\ SearchIdle /\ CaptchaIdle /\ TopoIdle /\ GateIdle
SpecRun == InitRun /\ [][RunNext]_vars

\* a sequence of init_database and close_database calls, from the unset manager
InitDb == RunIdle /\ SearchIdle /\ CaptchaIdle /\ TopoIdle /\ GateIdle
SpecDatabase == InitDb /\ [][DbNext]_vars

\* one call of ECourtsScraper.initialize
InitGateway == GateInit /\ SearchIdle /\ CaptchaIdle /\ TopoIdle /\ RunIdle
SpecGateway == InitGateway /\ [][GateNext]_vars

\* one call of enumerate_high_courts or of enumerate_benches
InitTopology == TopoInit /\ SearchIdle /\ CaptchaIdle /\ GateIdle /\ RunIdle
SpecTopology == InitTopology /\ [][TopoNext]_vars

\* one call of enumerate_benches, step by step
InitBenchPoll == BenchPollInit /\ SearchIdle /\ CaptchaIdle /\ GateIdle /\ RunIdle
SpecBenchPoll == InitBenchPoll /\ [][BenchPollNext]_vars

-----------------------------------------------------------------------------
(* Properties *)

\* C1: a CAPTCHA challenge is never submitted twice: of two consecutive POST
\* submissions k and k+1, the second carries the solution of a challenge that
\* was fetched after submission k, not the challenge submitted in k.
C1_FreshChallengePerSubmission ==
    \A k \in 1..(Len(posts) - 1) :
        /\ posts[k + 1].challenge.id # posts[k].challenge.id
        /\ posts[k + 1].challenge.after_posts >= k

\* the "select" marker of a display text
HasSelectMarker(text) ==
    Contains(text, StrSelect) \/ Contains(text, <<"s", "e", "l", "e", "c", "t">>)

\* a sentinel option: value absent, empty or "0", or a text with the marker
IsSentinelOption(opt) ==
    \/ opt.value = NoneVal
    \/ Strip(opt.value) = << >>
    \/ Strip(opt.value) = Str0
    \/ HasSelectMarker(opt.text)

NotSentinelOption(opt) == ~IsSentinelOption(opt)

\* C2: enumerate_high_courts returns exactly the non-sentinel options of the
\* court selector, in document order: no option whose value is absent, empty
\* or "0", or whose text contains a "select" marker, is returned.
C2_CourtsAreTheNonSentinelOptions ==
    (tpc = "courts_done" /\ select_visible /\ topo_error = "none")
        => courts = CourtsOf(SelectSeq(dom_options, NotSentinelOption))

\* C3: enumerate_benches never returns a sentinel: no returned bench has an
\* empty value, the value "0", or a display text with a "select" marker.
C3_NoSentinelBench ==
    tpc = "benches_done"
        => \A i \in 1..Len(benches) :
              /\ Strip(benches[i].value) # << >>
              /\ Strip(benches[i].value) # Str0
              /\ ~HasSelectMarker(benches[i].text)

\* the response holds table#searchResults with a header row and no data row
HeaderOnly(resp) ==
    resp.status = "ok" /\ resp.primary /\ resp.rows = <<HeaderRow>>

\* C4: when the response to a POST holds the results table with a header row
\* and zero data rows, the call returns the empty sequence through the
\* success return on that attempt: no later POST, no retry.
C4_HeaderOnlyTableIsSuccess ==
    HeaderOnly(lastResp)
        => /\ pc = "done"
           /\ exit = "found"
           /\ returned = << >>
           /\ Len(posts) = Len(hist)

\* budget was left, and the call still ended on the header-only response
C4_Witness ==
    /\ HeaderOnly(lastResp)
    /\ pc = "done"
    /\ Len(posts) = 2
    /\ call.max_retries = 3

\* the results table is missing from the page of an attempt
TableAbsent(h) == h.status = "ok" /\ ~h.primary /\ ~h.secondary

\* the results table is in the page of an attempt, with well-formed rows
TablePresent(h) == h.status = "ok" /\ h.primary /\ h.rows_ok

\* the records of the data rows of a table, by position
RecordsOf(trs) == [i \in 1..(Len(trs) - 1) |-> RowRecord(trs[i + 1])]

\* C5: for 1 <= k <= max_retries, when the results table is absent from the
\* responses of attempts 1..k-1 and present (rows well formed) in the response
\* of attempt k, the call returns exactly the records of attempt k's table and
\* makes no attempt after k.
C5_ReturnsRecordsOfFirstTable ==
    LET k == Len(hist)
    IN  (/\ k >= 1
         /\ k <= call.max_retries
         /\ \A i \in 1..(k - 1) : TableAbsent(hist[i])
         /\ TablePresent(hist[k]))
            => /\ pc = "done"
               /\ exit = "found"
               /\ returned = RecordsOf(lastResp.rows)
               /\ Len(posts) = k

\* absent on attempts 1 and 2, present on attempt 3, max_retries = 3
C5_Witness ==
    /\ pc = "done"
    /\ call.max_retries = 3
    /\ Len(hist) = 3
    /\ TableAbsent(hist[1])
    /\ TableAbsent(hist[2])
    /\ TablePresent(hist[3])
    /\ Len(returned) = 2

\* C6: when the resolver returns no solution, the call returns the empty
\* sequence after exactly one challenge fetch and one resolve call, with no
\* POST and no retry, and the outcome is reported as CaptchaUnresolved.
C6_UnresolvedIsReported ==
    (pc = "done" /\ resolves >= 1 /\ ~Truthy(captcha_solution))
        => /\ fetches = 1
           /\ resolves = 1
           /\ posts = << >>
           /\ returned = << >>
           /\ \E i \in 1..Len(search_logs) :
                 search_logs[i].error_message = "CaptchaUnresolved"

\* the characters of a text that are not blanks
NonBlank(t) == SelectSeq(t, LAMBDA c : ~IsSpace(c))

\* the OCR engine gave no output for the image
NoOcrOutput(img) == img.raises \/ img.text = << >>

\* C7: an OCR result whose whitespace-stripped length is below 4 is treated
\* exactly like no OCR output: the OCR solver returns no result, the fallback
\* strategy is invoked and its answer returned; a result of length >= 4 is
\* returned as the solution, without the fallback.
C7_ShortOcrFallsThrough ==
    cpc = "ret"
        => IF NoOcrOutput(image) \/ Len(NonBlank(image.text)) < 4
           THEN /\ ocr_result = NoneVal
                /\ manual_calls = 1
                /\ solution = solve_manual_captcha(image)
           ELSE /\ ocr_result = NonBlank(image.text)
                /\ manual_calls = 0
                /\ solution = NonBlank(image.text)

\* a three-character reading was discarded for the fallback's answer
C7_Witness ==
    /\ cpc = "ret"
    /\ ~image.raises
    /\ Len(NonBlank(image.text)) = 3
    /\ manual_calls = 1
    /\ solution = <<"1", "2", "3", "4">>

\* the text of a cell as it stands in the page
RECURSIVE RawText(_)
RawText(cell) ==
    IF cell = << >> THEN << >> ELSE Head(cell) \o RawText(Tail(cell))

\* a header row followed by data rows of four cells each
FourCellTable(resp) ==
    /\ resp.status = "ok"
    /\ resp.primary
    /\ resp.rows # << >>
    /\ \A i \in 2..Len(resp.rows) : Len(resp.rows[i]) = 4

\* C8 as stated: for a results table of a header row and n data rows of four
\* cells each, the call returns exactly n records, one per data row in row
\* order, the fields copied verbatim from columns 1 to 4; n is not capped.
C8_FieldsVerbatim ==
    FourCellTable(lastResp)
        => /\ pc = "done"
           /\ Len(returned) = Len(lastResp.rows) - 1
           /\ \A i \in 1..Len(returned) :
                 LET cols == lastResp.rows[i + 1]
                 IN  /\ returned[i].case_number = RawText(cols[1])
                     /\ returned[i].party_name  = RawText(cols[2])
                     /\ returned[i].next_date   = RawText(cols[3])
                     /\ returned[i].status      = RawText(cols[4])

\* C8 as amended: for a results table of a header row and n data rows of four
\* cells each, the call returns exactly n records, one per data row in row
\* order, each field the text of its column (1 to 4) with the blanks around
\* every text node removed; n is not capped by the result-count ceiling.
C8_FieldsStripped ==
    FourCellTable(lastResp)
        => /\ pc = "done"
           /\ exit = "found"
           /\ Len(returned) = Len(lastResp.rows) - 1
           /\ \A i \in 1..Len(returned) :
                 LET cols == lastResp.rows[i + 1]
                 IN  /\ returned[i].case_number = get_text(cols[1])
                     /\ returned[i].party_name  = get_text(cols[2])
                     /\ returned[i].next_date   = get_text(cols[3])
                     /\ returned[i].status      = get_text(cols[4])

\* more records than the ceiling, the first from a row with a padded cell
C8_Witness ==
    /\ pc = "done"
    /\ FourCellTable(lastResp)
    /\ Len(returned) > MAX_RESULTS
    /\ lastResp.rows[2][2] = CellPadded
    /\ returned[1].party_name = <<"K">>

\* record r carries value v under one of the field names
Carries(r, names, v) == \E f \in names \cap DOMAIN r : r[f] = v

\* C9: every record returned by a search is tagged with the court code, bench
\* code, search type and query text of the query it came from.
C9_RecordsTagged ==
    pc = "done"
        => \A i \in 1..Len(returned) :
              /\ Carries(returned[i], {"high_court", "court_code", "courtCode"},
                         call.court_code)
              /\ Carries(returned[i], {"bench", "court_complex_code", "benchCode"},
                         call.court_complex_code)
              /\ Carries(returned[i], {"search_type", "searchType"}, call.search_type)
              /\ Carries(returned[i], {"search_query", "query", "queryText"}, call.query)

\* some attempt found the table and parsed it
SomeAttemptParsed == \E i \in 1..Len(hist) : TablePresent(hist[i])

\* C10: for every max_retries >= 1 and every sequence of portal responses,
\* the call ends after at most max_retries POST submissions; when no attempt
\* parses it returns the empty sequence, and it never raises to its caller.
C10_BoundedRetriesNoRaise ==
    /\ Len(posts) <= call.max_retries
    /\ ~raised
    /\ pc = "post" => (attempt < call.max_retries /\ Len(posts) = attempt)
    /\ pc # "done" => ENABLED Next
    /\ (pc = "done" /\ ~SomeAttemptParsed) => returned = << >>

\* every attempt of a three-attempt budget failed in a different way
C10_Witness ==
    /\ pc = "done"
    /\ call.max_retries = 3
    /\ Len(posts) = 3
    /\ hist[1].status = "http_error"
    /\ hist[2].status = "exception"
    /\ hist[3].primary /\ ~hist[3].rows_ok
    /\ returned = << >>

\* C14: a failed challenge-image fetch (non-2xx or network error on the GET)
\* counts toward the retry budget: the search fetches again while budget
\* remains, it does not end the query on the first failed fetch.
C14_FailedFetchIsRetried ==
    (pc = "done" /\ exit = "captcha_exception") => fetches >= call.max_retries

\* the page of the last attempt lacks table#searchResults and holds
\* table#dispTable
SecondaryOnly(resp) == resp.status = "ok" /\ ~resp.primary /\ resp.secondary

\* C15: the results table is located by its primary identifier and, when that
\* is absent, by the secondary one; only a page with neither is a missing-table
\* anomaly. A page without the primary and with the secondary table is parsed
\* on that attempt: the call returns through the success return.
C15_SecondaryTableIsParsed ==
    SecondaryOnly(lastResp) => (pc = "done" /\ exit = "found")

\* C16: solve_captcha is an ordered fallback chain that never raises: the OCR
\* result is returned without the fallback whenever OCR yields an acceptable
\* one, the fallback is invoked exactly when OCR yields none (also when OCR
\* throws), and None is returned exactly when both strategies yield none.
C16_OrderedFallbackChain ==
    /\ cpc # "raised"
    /\ cpc = "manual" => (ocr_result = NoneVal /\ manual_calls = 0)
    /\ cpc = "ret" =>
          /\ (manual_calls = 0) <=> Truthy(ocr_result)
          /\ (manual_calls = 1) <=> ~Truthy(ocr_result)
          /\ Truthy(ocr_result) => solution = ocr_result
          /\ (solution = NoneVal)
                <=> (~Truthy(ocr_result) /\ ~Truthy(solve_manual_captcha(image)))

\* the OCR engine threw, the fallback was invoked once and answered
C16_Witness ==
    /\ cpc = "ret"
    /\ image.raises
    /\ ocr_result = NoneVal
    /\ manual_calls = 1
    /\ solution = <<"1", "2", "3", "4">>

\* C11: for a party-name search started by search_by_party_name(court, bench,
\* party_name), every submitted payload carries the court code and the bench
\* code of that court and bench, the party-name query-kind token, the query
\* text in the party-name field, an empty case-number field and the query
\* year in the year field.
C11_PartyNamePayload ==
    \A i \in 1..Len(posts) :
        LET p == posts[i].payload
        IN  /\ (p.court_code = search_args.court_value
                    \/ p.state_code = search_args.court_value)
            /\ p.court_complex_code = search_args.bench_value
            /\ p.caseStatusSearchType = "CSpartyName"
            /\ p.petres_name = search_args.party_name
            /\ p.caseNo = ""
            /\ p.rgyear = DefaultYear

\* C12: every search made by run_comprehensive_search is reported to the
\* sink by exactly one log_search event: when the run has ended, the search
\* log holds one event per (court, bench) searched.
C12_OneLogPerSearch ==
    rpc = "done" => Len(search_logs) = Len(searched)

\* C13: a local failure (the benches of a court cannot be enumerated or are
\* none, a search raises or finds nothing, the sink refuses a record) does not
\* end the run: no exception leaves run_comprehensive_search, and when it
\* has ended every target court has been visited and every bench enumerated
\* has been searched, in order.
C13_FailuresDoNotAbort ==
    /\ ~run_raised
    /\ rpc = "done" /\ filtered_courts # << >> =>
          /\ ci = Len(filtered_courts) + 1
          /\ searched = to_search

\* a run that went on after a failure: the first failure came before the
\* last search, a later court was processed, and the sink took no record of
\* a batch that was handed to it
C13_Witness ==
    /\ rpc = "done"
    /\ Len(filtered_courts) = 2
    /\ first_failure >= 0
    /\ Len(searched) > first_failure
    /\ searched = to_search
    /\ saved_batches > 0
    /\ stored = 0

\* positions of an event in the log of open_case_status_page
EventsOf(e) == {i \in DOMAIN gate_log : gate_log[i] = e}

\* C17: in open_case_status_page the first click that succeeds ends the
\* locator attempts: at most one candidate locator is clicked successfully
\* in a call, no candidate is clicked after one click has returned.
C17_FirstClickShortCircuits ==
    Cardinality(EventsOf("clicked")) <= 1

\* open_case_status_page has returned
OpenReturned == gpc = "opened" \/ (gpc = "done" /\ open_result # "none")

\* C18: every call of open_case_status_page runs handle_popup_if_present
\* once, after the last locator attempt, and returns True whether or not a
\* candidate could be clicked; initialize then reports success.
C18_PopupAlwaysThenSuccess ==
    /\ Cardinality(EventsOf("popup")) <= 1
    /\ EventsOf("popup") # {} => gate_log[Len(gate_log)] = "popup"
    /\ gpc \in {"popup", "probe"} => EventsOf("popup") # {}
    /\ OpenReturned =>
          /\ EventsOf("popup") # {}
          /\ popup_ret # "none"
          /\ open_result = "True"
    /\ gpc = "done" /\ open_result # "none" => init_result = "True"

\* every candidate locator failed to click, and the gateway reported success
C18_Witness ==
    /\ gpc = "done"
    /\ gate_log = [i \in 1..NumCandidates |-> "not_clicked"] \o <<"popup">>
    /\ popup_ret # "none"
    /\ open_result = "True"
    /\ init_result = "True"

\* C19: handle_popup_if_present clicks at most one dismissal target, sends
\* Escape exactly when no target was visible, and never raises.
C19_OneClickOrEscape ==
    /\ popup_clicks <= 1
    /\ popup_ret # "none" => (escape_sent <=> ~visible_seen)
    /\ popup_ret # "raised"

\* C20: enumerate_benches polls the frames at most 10 times and no poll
\* follows one that found the selector; polling ends only on a find or after
\* the 10th poll; and when no document ever holds the selector, or it never
\* has more than one option, the call returns an empty list and does not raise.
C20_BoundedPollThenEmpty ==
    /\ Len(poll_log) <= MaxPolls
    /\ \A i \in 1..(Len(poll_log) - 1) : ~poll_log[i]
    /\ bench_frame # "none" <=> (poll_log # << >> /\ poll_log[Len(poll_log)])
    /\ tpc = "wait" => (bench_frame # "none" \/ Len(poll_log) = MaxPolls)
    /\ (tpc = "benches_done" /\ poll_log # << >> /\ (~bench_present \/ Len(dom_options) <= 1))
          => (benches = << >> /\ topo_error # "raised")

\* ten polls found nothing and the call returned the empty list
C20_Witness ==
    /\ tpc = "benches_done"
    /\ Len(poll_log) = MaxPolls
    /\ bench_frame = "none"
    /\ ~bench_present
    /\ benches = << >>
    /\ topo_error # "raised"

\* C21: after the portal has rejected a POST as unauthenticated, the next
\* POST of the search is sent with session tokens read from the page after
\* the rejection, never with the rejected snapshot.
C21_TokensRefreshedAfterRejection ==
    \A k \in 1..(Len(posts) - 1) :
        hist[k].status = "unauthenticated" => posts[k + 1].tokens > posts[k].tokens

\* C22: perform_search_and_extract reads the cookie jar once, at its start,
\* and no step of it changes the page: the selected court and the loaded
\* document stay what they were.
C22_PageUntouched ==
    [][page' = page /\ cookie_reads' <= 1 /\ (pc # "fetch" => cookie_reads' = cookie_reads)]_vars

\* a search on a page with court 3 selected that posted and found records
C22_Witness ==
    /\ pc = "done"
    /\ exit = "found"
    /\ returned # << >>
    /\ cookie_reads = 1
    /\ page = [court |-> "3", document |-> "case_status"]

\* C23: HybridCaptchaSolver.solve_captcha answers every image, legible or
\* not, with a solution of at least 4 characters and never raises; so a
\* search never leaves by the "no solution" exit, and once the challenge was
\* fetched a POST carrying a solution is submitted.
C23_ResolverAlwaysAnswers ==
    /\ cpc # "raised"
    /\ cpc = "ret" => (solution # NoneVal /\ Len(solution) >= 4)
    /\ exit # "captcha_unsolved"
    /\ pc = "post" => Len(payload.captcha) >= 4
    /\ (pc = "done" /\ captcha_image # NoImage) =>
          (Len(posts) >= 1 /\ posts[1].payload.captcha = solution)

\* the image could not be read, the placeholder was posted
C23_Witness ==
    /\ pc = "done"
    /\ image.raises
    /\ manual_calls = 1
    /\ Len(posts) = 1
    /\ posts[1].payload.captcha = <<"1", "2", "3", "4">>

\* C24: after a successful initialize, main runs the comprehensive search,
\* prints its summary and returns: whatever the run met, main does not end
\* with an uncaught exception.
C24_MainReturnsNormally ==
    rpc = "main_done" => main_exit = "returned"

\* C26: save_to_database reports success only for a batch the sink stored:
\* the batches reported as saved are never more than the batches stored.
C26_SavedMeansStored ==
    saved_batches <= stored

\* C25: after any sequence of init_database and close_database calls the
\* global manager is unset or holds an open connection with initialised
\* tables; an init_database that failed has left it unset, so the next
\* init_database tries to connect again.
C25_ManagerUnsetOrReady ==
    /\ db \in {"unset", "ready"}
    /\ \A k \in 1..(Len(db_log) - 1) :
          (db_log[k].raised /\ db_log[k + 1].op = "init") => db_log[k + 1].connect_tried


=============================================================================
